---- MODULE Spec2Model ----
(***************************************************************************)
(* Model of qtnodes' restart.py: node layout (Node.addHeader, Node.addKnob,*)
(* Node.updateSizeForChildren) and connection topology (Knob.connectTo,    *)
(* Knob.addEdge, Knob.removeEdge, Edge.updatePath, the scene event filter  *)
(* that drives the press / move / release gesture).                        *)
(***************************************************************************)
EXTENDS Integers, Sequences, FiniteSets, TLC

(***************************************************************************)
(* Bounds of the model.                                                    *)
(***************************************************************************)
\* Children (headers and knobs) one node receives in the layout runs.
MaxChildren == 3
\* Edge objects constructed in one run.
MaxEdges == 2
\* Items one scene.items(rect) query returns.
MaxHits == 1
\* Horizontal advance of one character under the default font.
CharWidth == 7
\* Node.mouseMoveEvent calls in one run.
MaxMoves == 1
\* GridView.wheelEvent calls in one run.
MaxWheels == 2
\* Items in one result of scene.items(rect) handed to itemAt alone.
MaxQuery == 2

(***************************************************************************)
(* Program constants.                                                      *)
(***************************************************************************)
NodeMargin == 6
NodeInitW == 10
NodeInitH == 10
KnobDefaultW == 10
KnobDefaultH == 10
KnobDefaultMargin == 5
HeaderDefaultH == 20
\* GridView.zoomStep = 1.1 as the fraction ZoomStepNum / ZoomStepDen
ZoomStepNum == 11
ZoomStepDen == 10

None == 0

VARIABLES
    node,       \* the Node under construction: header, w, h, childItems()
    knobEdges,  \* Knob.edges of every knob of the scene
    edgeObj,    \* the fields of every constructed Edge
    nextEdge,   \* number of Edge objects constructed so far
    sceneItems, \* the Edges that are items of the QGraphicsScene
    sceneNodes, \* the nodes of the scene, as their constructors left them
    nodePos,    \* pos() of the nodes of the scene
    temp,       \* SceneEventHandler.temp
    err,        \* exception the last call raised, "none" when it returned
    last,       \* the last call or event handled, with its arguments
    pre,        \* history: the topology as it was before the last call
    gest,       \* history: the press / move* / release sequence in progress
    moves,      \* number of node moves handled
    view,       \* the GridView's transform.m11() and the global CURRENT_ZOOM
    wheels,     \* number of wheel events handled
    fill,       \* per knob: fillColor and _oldFillColor
    query       \* the result of the last scene.items(rect) of an itemAt call

vars == <<node, knobEdges, edgeObj, nextEdge, sceneItems, sceneNodes,
          nodePos, temp,
          err, last, pre, gest, moves, view, wheels,
          fill, query>>

(***************************************************************************)
(* Toolkit primitives.                                                     *)
(***************************************************************************)
\* getTextSize(text).width(): the default font metrics' width of a string.
getTextSize(text) == CharWidth * Len(text)

\* QRect(x, y, w, h).right() and .center() (integer rectangle).
QRectRight(x, w) == x + w - 1
QRectCenter(x, y, w, h) == <<(x + QRectRight(x, w)) \div 2,
                             (y + QRectRight(y, h)) \div 2>>

Max(a, b) == IF a >= b THEN a ELSE b

RECURSIVE MaxOf(_)
MaxOf(s) == IF Len(s) = 1 THEN s[1] ELSE Max(s[1], MaxOf(Tail(s)))

RECURSIVE SumOf(_)
SumOf(s) == IF s = << >> THEN 0 ELSE s[1] + SumOf(Tail(s))

(***************************************************************************)
(* Items a Node can own.                                                   *)
(***************************************************************************)
KnobClasses == {"Knob", "InputKnob", "OutputKnob"}

FLOW_LEFT_TO_RIGHT == "flow_left_to_right"
FLOW_RIGHT_TO_LEFT == "flow_right_to_left"

\* Python values an attribute may hold: a string or a number.
Str(s) == [tag |-> "str", str |-> s, num |-> 0]
Num(n) == [tag |-> "num", str |-> "", num |-> n]

\* An optional keyword argument: << >> when not passed, <<v>> when passed.
Absent == << >>
NoKwargs == [margin |-> Absent, flow |-> Absent]

\* The flow of each class: FLOW_RIGHT_TO_LEFT for an OutputKnob,
\* FLOW_LEFT_TO_RIGHT for a Knob or an InputKnob.
KnobFlowByClass(cls) ==
    IF cls = "OutputKnob" THEN Str(FLOW_RIGHT_TO_LEFT)
    ELSE Str(FLOW_LEFT_TO_RIGHT)

\* self.flow after the constructor: Knob.__init__ reads the keyword "margin"
\* for it, OutputKnob.__init__ then overwrites it from the keyword "flow".
KnobFlow(cls, kwargs) ==
    IF cls = "OutputKnob"
    THEN IF kwargs.flow = Absent THEN Str(FLOW_RIGHT_TO_LEFT)
         ELSE Str(kwargs.flow[1])
    ELSE IF kwargs.margin = Absent THEN Str(FLOW_LEFT_TO_RIGHT)
         ELSE Num(kwargs.margin[1])

\* Knob.__init__ / InputKnob.__init__ / OutputKnob.__init__ with the
\* keyword arguments w, h and labelText.
NewKnob(cls, w, h, labelText) ==
    [cls |-> cls, x |-> 0, y |-> 0, w |-> w, h |-> h,
     margin |-> KnobDefaultMargin, labelText |-> labelText,
     pos |-> <<0, 0>>, flow |-> KnobFlow(cls, NoKwargs)]

\* The constructors with the keyword arguments labelText, margin and flow.
NewKnobKw(cls, labelText, kwargs) ==
    [NewKnob(cls, KnobDefaultW, KnobDefaultH, labelText) EXCEPT
        !.margin = IF kwargs.margin = Absent THEN KnobDefaultMargin
                   ELSE kwargs.margin[1],
        !.flow = KnobFlow(cls, kwargs)]

\* Header.__init__
NewHeader(text, h) ==
    [cls |-> "Header", x |-> 0, y |-> 0, w |-> 0, h |-> h,
     margin |-> 0, labelText |-> text, pos |-> <<0, 0>>]

\* isinstance(c, Knob)
IsKnob(c) == c.cls \in KnobClasses

\* Node.__init__
NewNode == [header |-> None, x |-> 0, y |-> 0, w |-> NodeInitW,
            h |-> NodeInitH, margin |-> NodeMargin, children |-> << >>]

\* the knobs among childItems(), in order
KnobsOf(nd) == SelectSeq(nd.children, IsKnob)

\* Node.knob without the isinstance test
NodeKnobAnyChild(nd, name) ==
    LET hits == {i \in DOMAIN nd.children : nd.children[i].labelText = name}
    IN  IF hits = {} THEN None
        ELSE CHOOSE i \in hits : \A j \in hits : i <= j

\* Node.knob: the first child item that is a Knob labelled name, else None.
NodeKnob(nd, name) ==
    LET hits == {i \in DOMAIN nd.children :
                    IsKnob(nd.children[i]) /\ nd.children[i].labelText = name}
    IN  IF hits = {} THEN None
        ELSE CHOOSE i \in hits : \A j \in hits : i <= j

\* adjustHeight without the margin below the last knob
adjustHeightNoBottomMargin(nd) ==
    LET knobs == KnobsOf(nd)
        knobsHeight == SumOf([i \in 1..Len(knobs) |-> knobs[i].h + nd.margin])
    IN  nd.children[nd.header].h + knobsHeight

\* Node.updateSizeForChildren.adjustHeight
adjustHeight(nd) ==
    LET knobs == KnobsOf(nd)
        knobsHeight == SumOf([i \in 1..Len(knobs) |-> knobs[i].h + nd.margin])
    IN  nd.children[nd.header].h + knobsHeight + nd.margin

\* adjustWidth that measures the header only
adjustWidthHeaderOnly(nd) ==
    nd.margin + getTextSize(nd.children[nd.header].labelText) + nd.margin

\* Node.updateSizeForChildren.adjustWidth
adjustWidth(nd) ==
    LET headerWidth == nd.margin + getTextSize(nd.children[nd.header].labelText)
        knobs == KnobsOf(nd)
        knobWidths == [i \in 1..Len(knobs) |->
                         knobs[i].w + nd.margin + getTextSize(knobs[i].labelText)]
        maxWidth == MaxOf(<<headerWidth>> \o knobWidths)
    IN  maxWidth + nd.margin

\* Node.updateSizeForChildren
updateSizeForChildren(nd) ==
    [nd EXCEPT !.w = adjustWidth(nd), !.h = adjustHeight(nd)]

\* Node.addHeader: the header becomes self.header and a child item.
addHeader(nd, header) ==
    LET placed == [header EXCEPT !.pos = <<0, 0>>]
        bound == [nd EXCEPT !.children = Append(nd.children, placed),
                            !.header = Len(nd.children) + 1]
    IN  updateSizeForChildren(bound)

\* Node.addKnob raises AttributeError (self.header is None) inside
\* updateSizeForChildren, after the knob was made a child.
addKnobRaises(nd) == nd.header = None

\* addKnob that reads the bounding box before updateSizeForChildren
addKnobStaleWidth(nd, knob) ==
    LET children == nd.children
        yOffset == SumOf([i \in 1..Len(children) |-> children[i].h + nd.margin])
        xOffset == nd.margin \div 2
        k1 == [knob EXCEPT !.margin = nd.margin]
        parented == [nd EXCEPT !.children = Append(children, k1)]
    IN  IF addKnobRaises(nd) THEN parented
        ELSE LET sized == updateSizeForChildren(parented)
                 right == QRectRight(nd.x, nd.w)
                 left == nd.x
                 at == Len(sized.children)
             IN  IF knob.cls = "OutputKnob"
                 THEN [sized EXCEPT !.children[at].pos =
                                       <<right - knob.w + xOffset, yOffset>>]
                 ELSE IF knob.cls = "InputKnob"
                 THEN [sized EXCEPT !.children[at].pos =
                                       <<left - xOffset, yOffset>>]
                 ELSE sized

\* Node.addKnob
addKnob(nd, knob) ==
    LET children == nd.children
        yOffset == SumOf([i \in 1..Len(children) |-> children[i].h + nd.margin])
        xOffset == nd.margin \div 2
        k1 == [knob EXCEPT !.margin = nd.margin]
        parented == [nd EXCEPT !.children = Append(children, k1)]
    IN  IF addKnobRaises(nd) THEN parented
        ELSE LET sized == updateSizeForChildren(parented)
                 right == QRectRight(sized.x, sized.w)
                 left == sized.x
                 at == Len(sized.children)
             IN  IF knob.cls = "OutputKnob"
                 THEN [sized EXCEPT !.children[at].pos =
                                       <<right - knob.w + xOffset, yOffset>>]
                 ELSE IF knob.cls = "InputKnob"
                 THEN [sized EXCEPT !.children[at].pos =
                                       <<left - xOffset, yOffset>>]
                 ELSE sized

(***************************************************************************)
(* The scene of test(): an Integer node and a Multiply node.               *)
(***************************************************************************)
\* Integer.__init__
Integer == addKnob(addHeader(NewNode, NewHeader("Int", HeaderDefaultH)),
                   NewKnob("OutputKnob", KnobDefaultW, KnobDefaultH, "value"))

\* Multiply.__init__
Multiply ==
    LET n0 == addHeader(NewNode, NewHeader("Multiply", HeaderDefaultH))
        n1 == addKnob(n0, NewKnob("InputKnob", KnobDefaultW, KnobDefaultH, "x"))
        n2 == addKnob(n1, NewKnob("InputKnob", KnobDefaultW, KnobDefaultH, "y"))
    IN  addKnob(n2, NewKnob("OutputKnob", KnobDefaultW, KnobDefaultH, "value"))

\* nodeInt1 = Integer(scene=graph.scene); nodeMult = Multiply(...)
InitSceneNodes == <<Integer, Multiply>>
Nodes == {1, 2}

\* The knobs the calls and events of a run touch, as <<node, index among the
\* node's child items>>: Integer.value, Multiply.x and Multiply.value.
KnobTable == <<  <<1, 2>>, <<2, 2>>, <<2, 4>> >>
Knobs == DOMAIN KnobTable
KnobNode(k) == KnobTable[k][1]
KnobItem(k) == sceneNodes[KnobTable[k][1]].children[KnobTable[k][2]]

\* nodeInt1 stays at the origin, nodeMult.moveBy(200, 100)
InitNodePos == <<  <<0, 0>>, <<200, 100>> >>

\* knob.mapToScene(knob.boundingRect().center())
Anchor(k) ==
    LET it == KnobItem(k)
        c == QRectCenter(it.x, it.y, it.w, it.h)
        np == nodePos[KnobNode(k)]
    IN  <<np[1] + it.pos[1] + c[1], np[2] + it.pos[2] + c[2]>>

(***************************************************************************)
(* Edge                                                                    *)
(***************************************************************************)
\* Scale factors are fractions <<numerator, denominator>>.
One == <<1, 1>>
RatMul(p, q) == <<p[1] * q[1], p[2] * q[2]>>
RatEq(p, q) == p[1] * q[2] = q[1] * p[2]

\* Edge.__init__ with a thickness that ignores the zoom
NewEdgeUnitThickness ==
    [knob1 |-> None, knob2 |-> None,
     pos1 |-> <<0, 0>>, pos2 |-> <<0, 0>>, path |-> << >>,
     thickness |-> One]

\* Edge.__init__ (no path set yet): thickness = 1 * CURRENT_ZOOM
NewEdge == [knob1 |-> None, knob2 |-> None,
            pos1 |-> <<0, 0>>, pos2 |-> <<0, 0>>, path |-> << >>,
            thickness |-> RatMul(One, view.currentZoom)]

\* The cubic of Edge.updatePath from pos1 to pos2: start, the two control
\* points (in tenths, curv1..curv4 = 0.6, 0.2, 0.4, 0.8) and end.
CubicPath(p1, p2) ==
    LET dx == p2[1] - p1[1]
        dy == p2[2] - p1[2]
    IN  << p1,
           <<10 * p1[1] + 6 * dx, 10 * p1[2] + 2 * dy>>,
           <<10 * p1[1] + 4 * dx, 10 * p1[2] + 8 * dy>>,
           p2 >>

\* updatePath that never re-reads knob2's anchor
updatePathIgnoresKnob2(e) ==
    LET p1 == IF e.knob1 # None THEN Anchor(e.knob1) ELSE e.pos1
        p2 == e.pos2
    IN  [e EXCEPT !.pos1 = p1, !.pos2 = p2, !.path = CubicPath(p1, p2)]

\* Edge.updatePath
updatePath(e) ==
    LET p1 == IF e.knob1 # None THEN Anchor(e.knob1) ELSE e.pos1
        p2 == IF e.knob2 # None THEN Anchor(e.knob2) ELSE e.pos2
    IN  [e EXCEPT !.pos1 = p1, !.pos2 = p2, !.path = CubicPath(p1, p2)]

Edges == 1..nextEdge

(***************************************************************************)
(* Events and history                                                      *)
(***************************************************************************)
NoItem == [kind |-> "None", id |-> 0]
KnobHit(k) == [kind |-> "Knob", id |-> k]

\* What scene.items(rect) can hold: knobs, nodes (a node's header covers the
\* node's own rectangle and is no Knob either), edges in the scene.
SceneHits == {KnobHit(k) : k \in Knobs}
             \cup {[kind |-> "Node", id |-> n] : n \in Nodes}
             \cup {[kind |-> "Edge", id |-> e] : e \in sceneItems}

\* Results of scene.items(rect): sequences of distinct items, topmost first.
HitLists == {s \in UNION {[1..n -> SceneHits] : n \in 0..MaxHits} :
                \A i, j \in DOMAIN s : i # j => s[i] # s[j]}

\* event.scenePos()
PointerPos == {<<0, 0>>, <<40, 20>>}

LeftButton == "left"
RightButton == "right"
Buttons == {LeftButton, RightButton}

\* SceneEventHandler.itemAt: every scene item is a QGraphicsItem.
itemAt(items) == IF items = << >> THEN NoItem ELSE items[1]

NoTemp == [edge |-> None, knob |-> None]
NoGest == [phase |-> "none", src |-> None, draft |-> None, idle |-> FALSE,
           moved |-> FALSE, before |-> [k \in Knobs |-> {}], sceneBefore |-> {}]
\* ret: what an event filter call returned, TRUE for "event consumed".
Call(op, a, b, item) ==
    [op |-> op, a |-> a, b |-> b, item |-> item, ret |-> FALSE]

\* An eventFilter that consumes every event
superEventFilterConsumes == TRUE

\* QObject.eventFilter, whose result eventFilter returns: nothing is filtered.
superEventFilter == FALSE

\* The topology a call finds: Knob.edges, scene items, Edge fields, temp.
Snapshot == [ke |-> knobEdges, sc |-> sceneItems, objs |-> edgeObj,
             temp |-> temp, pos |-> nodePos, zoom |-> view.currentZoom]

\* Colours are <<red, green, blue>>; the default fillColor of each class.
DefaultFillColor(cls) ==
    CASE cls = "InputKnob" -> <<130, 230, 130>>
      [] cls = "OutputKnob" -> <<230, 130, 130>>
      [] OTHER -> <<130, 130, 130>>

\* The highlight colour, QColor(255, 255, 0)
Yellow == <<255, 255, 0>>

\* A knob without the attribute _oldFillColor
Unset == << >>

Init ==
    /\ node = NewNode
    /\ knobEdges = [k \in Knobs |-> {}]
    /\ edgeObj = << >>
    /\ nextEdge = 0
    /\ sceneItems = {}
    /\ sceneNodes = InitSceneNodes
    /\ nodePos = InitNodePos
    /\ temp = NoTemp
    /\ err = "none"
    /\ last = Call("init", 0, 0, NoItem)
    /\ pre = [ke |-> [k \in Knobs |-> {}], sc |-> {}, objs |-> << >>,
               temp |-> NoTemp, pos |-> InitNodePos, zoom |-> One]
    /\ gest = NoGest
    /\ moves = 0
    /\ view = [m11 |-> One, currentZoom |-> One]
    /\ wheels = 0
    /\ query = << >>
    /\ fill = [k \in Knobs |->
                 [fillColor |-> DefaultFillColor(KnobItem(k).cls),
                  oldFillColor |-> Unset]]

(***************************************************************************)
(* Knob: addEdge, removeEdge, connectTo.  reg is the pair of Knob.edges of *)
(* all knobs (ke) and the scene's edge items (sc).                         *)
(***************************************************************************)
Reg == [ke |-> knobEdges, sc |-> sceneItems]

\* addEdge without the self.edges.add(edge)
addEdgeForgetsKnob(reg, k, e) ==
    [ke |-> reg.ke,
     sc |-> IF e \notin reg.sc THEN reg.sc \cup {e} ELSE reg.sc]

\* Knob.addEdge
addEdge(reg, k, e) ==
    [ke |-> [reg.ke EXCEPT ![k] = @ \cup {e}],
     sc |-> IF e \notin reg.sc THEN reg.sc \cup {e} ELSE reg.sc]

\* removeEdge as set.discard: a missing edge is no error
removeEdgeNeverRaises(reg, k, e) == FALSE

\* Knob.removeEdge raises KeyError: set.remove of a missing element.
removeEdgeRaises(reg, k, e) == e \notin reg.ke[k]

\* removeEdge without the scene().removeItem(edge)
removeEdgeKeepsScene(reg, k, e) ==
    [ke |-> [reg.ke EXCEPT ![k] = @ \ {e}],
     sc |-> reg.sc]

\* Knob.removeEdge, when it does not raise
removeEdge(reg, k, e) ==
    [ke |-> [reg.ke EXCEPT ![k] = @ \ {e}],
     sc |-> reg.sc \ {e}]

\* connectTo without its "knob is self" test
connectToSelfNever(self, knob) == FALSE

\* Knob.connectTo: "if knob is self: return"
connectToSelf(self, knob) == knob = self

\* Knob.connectTo
ConnectTo(a, b) ==
    /\ last' = Call("connectTo", a, b, NoItem)
    /\ pre' = Snapshot
    /\ gest' = NoGest
    /\ err' = "none"
    /\ IF connectToSelf(a, b)
       THEN UNCHANGED <<knobEdges, edgeObj, nextEdge, sceneItems>>
       ELSE /\ nextEdge < MaxEdges
            /\ LET e == nextEdge + 1
                   edge == [NewEdge EXCEPT !.knob1 = a, !.knob2 = b]
                   reg == addEdge(addEdge(Reg, a, e), b, e)
               IN  /\ nextEdge' = e
                   /\ knobEdges' = reg.ke
                   /\ sceneItems' = reg.sc
                   /\ edgeObj' = Append(edgeObj, updatePath(edge))
    /\ UNCHANGED <<node, fill, query, view, wheels,
                   sceneNodes, nodePos, temp, moves>>

\* A caller's knob.removeEdge(edge)
RemoveEdge(k, e) ==
    /\ last' = Call("removeEdge", k, e, NoItem)
    /\ pre' = Snapshot
    /\ gest' = NoGest
    /\ IF removeEdgeRaises(Reg, k, e)
       THEN /\ err' = "KeyError"
            /\ UNCHANGED <<knobEdges, sceneItems>>
       ELSE /\ err' = "none"
            /\ knobEdges' = removeEdge(Reg, k, e).ke
            /\ sceneItems' = removeEdge(Reg, k, e).sc
    /\ UNCHANGED <<node, fill, query, view, wheels,
                   sceneNodes, edgeObj, nextEdge, nodePos, temp,
                   moves>>

(***************************************************************************)
(* SceneEventHandler.eventFilter                                           *)
(***************************************************************************)
\* GraphicsSceneMousePress
Press(btn, pos, items) ==
    LET item == itemAt(items) IN
    /\ last' = [Call("press", btn, 0, item) EXCEPT !.ret = superEventFilter]
    /\ pre' = Snapshot
    /\ err' = "none"
    /\ IF btn = LeftButton /\ item.kind = "Knob"
       THEN /\ nextEdge < MaxEdges
            /\ LET knob == item.id
                   e == nextEdge + 1
                   edge == updatePath([NewEdge EXCEPT !.knob1 = knob,
                                                      !.pos2 = pos])
                   reg == addEdge(Reg, knob, e)
               IN  /\ nextEdge' = e
                   /\ edgeObj' = Append(edgeObj, edge)
                   /\ knobEdges' = reg.ke
                   /\ sceneItems' = reg.sc
                   /\ temp' = [edge |-> e, knob |-> knob]
                   /\ gest' = [phase |-> "dragging", src |-> knob,
                               draft |-> e, idle |-> (temp = NoTemp),
                               moved |-> FALSE, before |-> knobEdges,
                               sceneBefore |-> sceneItems]
       ELSE /\ gest' = NoGest
            /\ UNCHANGED <<knobEdges, edgeObj, nextEdge, sceneItems, temp>>
    /\ UNCHANGED <<node, fill, query, view, wheels,
                   sceneNodes, nodePos, moves>>

\* GraphicsSceneMouseMove
Move(pos, items) ==
    LET item == itemAt(items) IN
    /\ last' = [Call("move", 0, 0, NoItem) EXCEPT !.ret = superEventFilter]
    /\ pre' = Snapshot
    /\ err' = "none"
    /\ gest' = IF gest.phase = "dragging"
               THEN [gest EXCEPT !.moved = TRUE] ELSE NoGest
    /\ IF temp.edge # None
       THEN edgeObj' = [edgeObj EXCEPT ![temp.edge] =
                            updatePath([edgeObj[temp.edge] EXCEPT
                                            !.pos2 = pos])]
       ELSE UNCHANGED edgeObj
    /\ UNCHANGED <<node, fill, query, view, wheels,
                   sceneNodes, knobEdges, nextEdge, sceneItems, nodePos,
                   temp, moves>>

\* eventFilter without the "item is edgeStartKnob" test
releaseCaseNoSelfCheck(item, tmp) ==
    IF tmp.edge = None THEN "idle"
    ELSE IF item.kind = "Knob" THEN "finalize" ELSE "cancel"

\* The branch a release takes: no edge in creation, the start knob itself,
\* another knob, or anything else.
releaseCase(item, tmp) ==
    IF tmp.edge = None THEN "idle"
    ELSE IF item.kind = "Knob"
         THEN IF item.id = tmp.knob THEN "self" ELSE "finalize"
         ELSE "cancel"

\* GraphicsSceneMouseRelease
Release(pos, items) ==
    LET item == itemAt(items)
        edge == temp.edge
    IN
    /\ last' = [Call("release", 0, 0, item) EXCEPT !.ret = superEventFilter]
    /\ pre' = Snapshot
    /\ gest' = IF gest.phase = "dragging"
               THEN [gest EXCEPT !.phase = "released"] ELSE NoGest
    /\ IF releaseCase(item, temp) = "idle"
       THEN /\ err' = "none"
            /\ UNCHANGED <<knobEdges, edgeObj, sceneItems, temp>>
       ELSE IF releaseCase(item, temp) = "finalize"
       THEN \* finalize edge
            LET reg == addEdge(Reg, item.id, edge) IN
            /\ err' = "none"
            /\ knobEdges' = reg.ke
            /\ sceneItems' = reg.sc
            /\ edgeObj' = [edgeObj EXCEPT ![edge] =
                               updatePath([edgeObj[edge] EXCEPT
                                               !.knob2 = item.id])]
            /\ temp' = NoTemp
       ELSE \* cant connect a knob to itself / cancel edge
            IF removeEdgeRaises(Reg, temp.knob, edge)
            THEN /\ err' = "KeyError"
                 /\ UNCHANGED <<knobEdges, edgeObj, sceneItems, temp>>
            ELSE /\ err' = "none"
                 /\ knobEdges' = removeEdge(Reg, temp.knob, edge).ke
                 /\ sceneItems' = removeEdge(Reg, temp.knob, edge).sc
                 /\ temp' = NoTemp
                 /\ UNCHANGED edgeObj
    /\ UNCHANGED <<node, fill, query, view, wheels,
                   sceneNodes, nextEdge, nodePos, moves>>

(***************************************************************************)
(* Node.mouseMoveEvent: the paths of the node's edges are updated, then    *)
(* the default handler moves the node by the pointer's displacement.       *)
(***************************************************************************)
MoveDeltas == {<<100, 0>>}

RECURSIVE updateAll(_, _)
updateAll(objs, es) ==
    IF es = {} THEN objs
    ELSE LET e == CHOOSE x \in es : TRUE
         IN  updateAll([objs EXCEPT ![e] = updatePath(objs[e])], es \ {e})

mouseMoveEvent(n, d) ==
    /\ moves < MaxMoves
    /\ moves' = moves + 1
    /\ last' = Call("nodeMove", n, 0, NoItem)
    /\ pre' = Snapshot
    /\ gest' = NoGest
    /\ err' = "none"
    /\ edgeObj' = updateAll(edgeObj,
                     UNION {knobEdges[k] : k \in {x \in Knobs : KnobNode(x) = n}})
    /\ nodePos' = [nodePos EXCEPT ![n] = <<@[1] + d[1], @[2] + d[2]>>]
    /\ UNCHANGED <<node, fill, query, view, wheels,
                   sceneNodes, knobEdges, nextEdge, sceneItems, temp>>

\* Knob.highlight(toggle), as called by the hover handlers or directly
highlight(k, toggle) ==
    /\ last' = Call("highlight", k, IF toggle THEN 1 ELSE 0, NoItem)
    /\ pre' = Snapshot
    /\ gest' = NoGest
    /\ IF toggle
       THEN /\ err' = "none"
            /\ fill' = [fill EXCEPT ![k] =
                          [fillColor |-> Yellow,
                           oldFillColor |-> fill[k].fillColor]]
       ELSE IF fill[k].oldFillColor = Unset
       THEN /\ err' = "AttributeError"
            /\ UNCHANGED fill
       ELSE /\ err' = "none"
            /\ fill' = [fill EXCEPT ![k].fillColor = fill[k].oldFillColor]
    /\ UNCHANGED <<node, view, wheels, sceneNodes, knobEdges, edgeObj,
                   nextEdge, sceneItems, nodePos, temp, moves, query>>

\* event.delta() of a wheel event
WheelDeltas == {-120, 0, 120}

\* GridView.wheelEvent: "zoom = self.zoomStep if positive else 1.0 / self.zoomStep"
zoomOf(delta) ==
    IF delta >= 0 THEN <<ZoomStepNum, ZoomStepDen>>
    ELSE <<ZoomStepDen, ZoomStepNum>>

\* GridView.wheelEvent
wheelEvent(delta) ==
    /\ wheels < MaxWheels
    /\ wheels' = wheels + 1
    /\ last' = Call("wheel", delta, 0, NoItem)
    /\ pre' = Snapshot
    /\ gest' = NoGest
    /\ err' = "none"
    /\ LET m11 == RatMul(view.m11, zoomOf(delta))
       IN  view' = [m11 |-> m11, currentZoom |-> m11]
    /\ UNCHANGED <<node, fill, query, sceneNodes, knobEdges, edgeObj, nextEdge,
                   sceneItems, nodePos, temp, moves>>

\* node.moveBy(dx, dy): the node is moved, no handler of the node runs.
moveBy(n, d) ==
    /\ moves < MaxMoves
    /\ moves' = moves + 1
    /\ last' = Call("moveBy", n, 0, NoItem)
    /\ pre' = Snapshot
    /\ gest' = NoGest
    /\ err' = "none"
    /\ nodePos' = [nodePos EXCEPT ![n] = <<@[1] + d[1], @[2] + d[2]>>]
    /\ UNCHANGED <<node, fill, query, view, wheels,
                   sceneNodes, knobEdges, edgeObj, nextEdge, sceneItems,
                   temp>>

Next ==
    \/ \E a, b \in Knobs : ConnectTo(a, b)
    \/ \E k \in Knobs, e \in Edges : RemoveEdge(k, e)
    \/ \E btn \in Buttons, pos \in PointerPos, items \in HitLists :
          Press(btn, pos, items)
    \/ \E pos \in PointerPos, items \in HitLists : Move(pos, items)
    \/ \E pos \in PointerPos, items \in HitLists : Release(pos, items)

Spec == Init /\ [][Next]_vars

\* Pointer events only.
NextGesture ==
    \/ \E btn \in Buttons, pos \in PointerPos, items \in HitLists :
          Press(btn, pos, items)
    \/ \E pos \in PointerPos, items \in HitLists : Move(pos, items)
    \/ \E pos \in PointerPos, items \in HitLists : Release(pos, items)

SpecGesture == Init /\ [][NextGesture]_vars

\* The sequences of up to n scene items.
RECURSIVE ItemSeqs(_)
ItemSeqs(n) ==
    IF n = 0 THEN {<< >>}
    ELSE LET shorter == ItemSeqs(n - 1)
         IN  shorter \cup {Append(s, x) : s \in shorter, x \in SceneHits}

\* Stacking order of the scene items, none of which sets a z value: top-level
\* items in the order they were added (the nodes of test(), then edges), and
\* a node's child items above the node, in the order they were added.
StackRank(item) ==
    CASE item.kind = "Node" -> 10 * item.id
      [] item.kind = "Knob" -> 10 * KnobNode(item.id) + KnobTable[item.id][2]
      [] item.kind = "Edge" -> 100 + item.id

\* Results of scene.items(rect) of up to MaxQuery items, topmost first.
Queries == {s \in ItemSeqs(MaxQuery) :
               \A i, j \in DOMAIN s :
                  i < j => StackRank(s[i]) > StackRank(s[j])}

\* A call of SceneEventHandler.itemAt whose scene query returned items.
ItemAt(items) ==
    /\ query' = items
    /\ last' = Call("itemAt", 0, 0, itemAt(items))
    /\ err' = "none"
    /\ UNCHANGED <<node, knobEdges, edgeObj, nextEdge, sceneItems, sceneNodes,
                   nodePos, temp, pre, gest, moves, view, wheels, fill>>

\* Hit tests in a scene with programmatic connections.
NextHit ==
    \/ \E a, b \in Knobs : ConnectTo(a, b)
    \/ \E items \in Queries : ItemAt(items)

SpecHit == Init /\ [][NextHit]_vars

\* Programmatic connections and node drags.
NextDrag ==
    \/ \E a, b \in Knobs : ConnectTo(a, b)
    \/ \E n \in Nodes, d \in MoveDeltas : mouseMoveEvent(n, d)
    \/ \E n \in Nodes, d \in MoveDeltas : moveBy(n, d)
    \/ \E delta \in WheelDeltas : wheelEvent(delta)

SpecDrag == Init /\ [][NextDrag]_vars

\* Knob highlighting together with programmatic connections.
NextHighlight ==
    \/ \E a, b \in Knobs : ConnectTo(a, b)
    \/ \E k \in Knobs, toggle \in BOOLEAN : highlight(k, toggle)

SpecHighlight == Init /\ [][NextHighlight]_vars

(***************************************************************************)
(* Building one node: Node.addHeader and Node.addKnob on fresh items.      *)
(***************************************************************************)
HeaderTexts == {"Int", "Multiply"}
HeaderHeights == {HeaderDefaultH, 24}
KnobLabels == {"x", "value"}
KnobWidths == {KnobDefaultW, 40}
KnobHeights == {KnobDefaultH, 14}

\* Names looked up with Node.knob: the knob labels, the header texts and a
\* name no item carries.
LookupNames == <<"x", "value", "Int", "Multiply", "y">>

AddHeader(text, h) ==
    /\ Len(node.children) < MaxChildren
    /\ node' = addHeader(node, NewHeader(text, h))
    /\ err' = "none"
    /\ last' = Call("addHeader", Len(node.children) + 1, 0, NoItem)
    /\ UNCHANGED <<knobEdges, edgeObj, nextEdge, sceneItems, sceneNodes,
                   nodePos, temp, pre, gest, moves, view, wheels,
                   fill, query>>

AddKnob(cls, w, h, labelText) ==
    /\ Len(node.children) < MaxChildren
    /\ node' = addKnob(node, NewKnob(cls, w, h, labelText))
    /\ err' = IF addKnobRaises(node) THEN "AttributeError" ELSE "none"
    /\ last' = Call("addKnob", Len(node.children) + 1, 0, NoItem)
    /\ UNCHANGED <<knobEdges, edgeObj, nextEdge, sceneItems, sceneNodes,
                   nodePos, temp, pre, gest, moves, view, wheels,
                   fill, query>>

\* A caller's node.knob(name); the result is the child's index or None.
Lookup(n) ==
    /\ last' = Call("knob", NodeKnob(node, LookupNames[n]), n, NoItem)
    /\ err' = "none"
    /\ UNCHANGED <<node, knobEdges, edgeObj, nextEdge, sceneItems, sceneNodes,
                   nodePos, temp, pre, gest, moves, view, wheels, fill,
                   query>>

NextLayout ==
    \/ \E text \in HeaderTexts, h \in HeaderHeights : AddHeader(text, h)
    \/ \E cls \in KnobClasses, w \in KnobWidths, h \in KnobHeights,
          labelText \in KnobLabels : AddKnob(cls, w, h, labelText)

SpecLayout == Init /\ [][NextLayout]_vars

\* Building one node from items of the default sizes, and looking knobs up.
NextLookup ==
    \/ \E text \in HeaderTexts : AddHeader(text, HeaderDefaultH)
    \/ \E cls \in KnobClasses, labelText \in KnobLabels :
          AddKnob(cls, KnobDefaultW, KnobDefaultH, labelText)
    \/ \E n \in DOMAIN LookupNames : Lookup(n)

SpecLookup == Init /\ [][NextLookup]_vars

\* Keyword arguments a caller passes to a knob constructor.
KwMargins == {Absent, <<8>>}
KwFlows == {Absent, <<FLOW_LEFT_TO_RIGHT>>, <<FLOW_RIGHT_TO_LEFT>>}
Kwargs == [margin : KwMargins, flow : KwFlows]

\* node.addKnob(cls(labelText=..., **kwargs))
AddKnobKw(cls, labelText, kwargs) ==
    /\ Len(node.children) < MaxChildren
    /\ node' = addKnob(node, NewKnobKw(cls, labelText, kwargs))
    /\ err' = IF addKnobRaises(node) THEN "AttributeError" ELSE "none"
    /\ last' = Call("addKnob", Len(node.children) + 1, 0, NoItem)
    /\ UNCHANGED <<knobEdges, edgeObj, nextEdge, sceneItems, sceneNodes,
                   nodePos, temp, pre, gest, moves, view, wheels, fill,
                   query>>

\* Knob.paint, the x of the label: right of the rectangle for
\* FLOW_LEFT_TO_RIGHT, left of it for FLOW_RIGHT_TO_LEFT.
labelX(k) ==
    IF k.flow = Str(FLOW_LEFT_TO_RIGHT)
    THEN QRectRight(k.x, k.w) + k.margin
    ELSE k.x - k.margin - getTextSize(k.labelText)

\* Knob.paint raises UnknownFlowError
paintRaises(k) ==
    k.flow \notin {Str(FLOW_LEFT_TO_RIGHT), Str(FLOW_RIGHT_TO_LEFT)}

\* The view paints child item i of the node, a knob.
Paint(i) ==
    /\ i \in DOMAIN node.children
    /\ IsKnob(node.children[i])
    /\ IF paintRaises(node.children[i])
       THEN /\ err' = "UnknownFlowError"
            /\ last' = Call("paint", i, 0, NoItem)
       ELSE /\ err' = "none"
            /\ last' = Call("paint", i, labelX(node.children[i]), NoItem)
    /\ UNCHANGED <<node, knobEdges, edgeObj, nextEdge, sceneItems, sceneNodes,
                   nodePos, temp, pre, gest, moves, view, wheels, fill,
                   query>>

\* Building one node from knobs constructed with keyword arguments, and
\* painting its knobs.
NextPaint ==
    \/ \E text \in HeaderTexts : AddHeader(text, HeaderDefaultH)
    \/ \E cls \in KnobClasses, labelText \in KnobLabels, kwargs \in Kwargs :
          AddKnobKw(cls, labelText, kwargs)
    \/ \E i \in 1..MaxChildren : Paint(i)

SpecPaint == Init /\ [][NextPaint]_vars

(***************************************************************************)
(* Properties of the gesture                                               *)
(***************************************************************************)
\* The two knobs an edge object is bound to (None for a free end).
Endpoints(e) == {edgeObj[e].knob1, edgeObj[e].knob2}

\* The edges that registry `ke`, `sc` still holds: listed by a knob or in
\* the scene.
Held(ke, sc) == {e \in Edges : e \in sc \/ \E k \in Knobs : e \in ke[k]}

\* The held connections between knobs a and b.
Between(ke, sc, a, b) == {e \in Held(ke, sc) : Endpoints(e) = {a, b}}

\* A press / move* / release sequence has just ended with the release.
Released == gest.phase = "released" /\ last.op = "release"

\* C1: a press on knob A in Idle, moves, and a release over another knob B,
\* with no connection between A and B before, ends in Idle with exactly one
\* connection between A and B, the draft, listed by A and by B; no other
\* edge was added to any knob.
GestureCompletion ==
    (/\ Released
     /\ gest.idle
     /\ last.item.kind = "Knob"
     /\ last.item.id # gest.src
     /\ Between(gest.before, gest.sceneBefore, gest.src, last.item.id) = {})
    => LET A == gest.src
           B == last.item.id
       IN  /\ temp = NoTemp
           /\ Between(knobEdges, sceneItems, A, B) = {gest.draft}
           /\ gest.draft \in knobEdges[A] \cap knobEdges[B]
           /\ \A k \in Knobs :
                 knobEdges[k] = gest.before[k]
                                \cup (IF k \in {A, B} THEN {gest.draft} ELSE {})

GestureCompletionWitness ==
    /\ Released
    /\ gest.idle
    /\ last.item.kind = "Knob"
    /\ last.item.id # gest.src
    /\ Between(gest.before, gest.sceneBefore, gest.src, last.item.id) = {}
    /\ gest.before[gest.src] # {}
    /\ gest.moved
    /\ edgeObj[gest.draft].knob2 = last.item.id

\* C2: a press on knob A, moves, and a release over empty space or over an
\* item that is no knob leave A's edge set as it was before the press, take
\* the draft out of the scene and of every edge set, and end in Idle.
GestureCancel ==
    (Released /\ last.item.kind # "Knob")
    => /\ knobEdges[gest.src] = gest.before[gest.src]
       /\ gest.draft \notin sceneItems
       /\ \A k \in Knobs : gest.draft \notin knobEdges[k]
       /\ temp = NoTemp

GestureCancelWitness ==
    /\ Released
    /\ last.item.kind = "Node"
    /\ ~gest.idle
    /\ gest.before[gest.src] # {}
    /\ gest.moved

\* C3: a release over the source knob itself binds nothing: the draft
\* leaves the source's edge set and the scene, every knob's edge set is what
\* it was before the press, and the controller is Idle.
GestureSelfRelease ==
    (Released /\ last.item = KnobHit(gest.src))
    => /\ edgeObj[gest.draft].knob2 = None
       /\ gest.draft \notin knobEdges[gest.src]
       /\ gest.draft \notin sceneItems
       /\ knobEdges = gest.before
       /\ temp = NoTemp

GestureSelfReleaseWitness ==
    /\ Released
    /\ last.item = KnobHit(gest.src)
    /\ pre.temp = [edge |-> gest.draft, knob |-> gest.src]
    /\ gest.before[gest.src] # {}

\* C4: every held edge bound to two knobs has two different endpoints and
\* is listed by both of them.
SymmetricMembership ==
    \A e \in Held(knobEdges, sceneItems) :
        (edgeObj[e].knob1 # None /\ edgeObj[e].knob2 # None)
        => /\ edgeObj[e].knob1 # edgeObj[e].knob2
           /\ e \in knobEdges[edgeObj[e].knob1]
           /\ e \in knobEdges[edgeObj[e].knob2]

(***************************************************************************)
(* Properties of connectTo and removeEdge                                  *)
(***************************************************************************)
\* C5: s.connectTo(s) constructs no Edge, adds nothing to the scene and
\* changes no knob's edge set.
SelfConnectionNoop ==
    (last.op = "connectTo" /\ last.a = last.b)
    => /\ edgeObj = pre.objs
       /\ nextEdge = Len(pre.objs)
       /\ sceneItems = pre.sc
       /\ knobEdges = pre.ke
       /\ temp = pre.temp

SelfConnectionWitness ==
    /\ last.op = "connectTo"
    /\ last.a = last.b
    /\ knobEdges[last.a] # {}
    /\ temp # NoTemp

\* C6: a.connectTo(b) with a # b constructs one Edge with knob1 = a and
\* knob2 = b, new to a's and b's edge sets and to the scene, changes no other
\* knob's edge set and no other edge, and leaves the edge's path the cubic
\* between the two knobs' current scene anchors.
ConnectCreatesOne ==
    (last.op = "connectTo" /\ last.a # last.b)
    => LET a == last.a
           b == last.b
           e == nextEdge
       IN  /\ nextEdge = Len(pre.objs) + 1
           /\ SubSeq(edgeObj, 1, e - 1) = pre.objs
           /\ edgeObj[e].knob1 = a
           /\ edgeObj[e].knob2 = b
           /\ \A k \in Knobs :
                 knobEdges[k] = pre.ke[k] \cup (IF k \in {a, b} THEN {e} ELSE {})
           /\ e \notin pre.sc
           /\ sceneItems = pre.sc \cup {e}
           /\ edgeObj[e].pos1 = Anchor(a)
           /\ edgeObj[e].pos2 = Anchor(b)
           /\ edgeObj[e].path = CubicPath(Anchor(a), Anchor(b))

ConnectCreatesOneWitness ==
    /\ last.op = "connectTo"
    /\ last.a # last.b
    /\ nodePos # InitNodePos
    /\ nextEdge = 2

\* C7 as stated: removeEdge of an edge the knob does not list fails with
\* NotConnectedError and changes neither the edge set nor the scene.
DisconnectNotConnectedError ==
    (last.op = "removeEdge" /\ last.b \notin pre.ke[last.a])
    => /\ err = "NotConnectedError"
       /\ knobEdges[last.a] = pre.ke[last.a]
       /\ sceneItems = pre.sc

\* C7 as amended: removeEdge of an edge the knob does not list raises
\* KeyError to the caller and changes neither the edge set nor the scene.
DisconnectKeyError ==
    (last.op = "removeEdge" /\ last.b \notin pre.ke[last.a])
    => /\ err = "KeyError"
       /\ knobEdges[last.a] = pre.ke[last.a]
       /\ sceneItems = pre.sc

DisconnectKeyErrorWitness ==
    /\ last.op = "removeEdge"
    /\ last.b \notin pre.ke[last.a]
    /\ last.b \in sceneItems

(***************************************************************************)
(* Properties of the node layout                                           *)
(***************************************************************************)
\* The indexes of the node's knobs among its child items.
KnobIdx == {i \in DOMAIN node.children : IsKnob(node.children[i])}

TitleWidth == getTextSize(node.children[node.header].labelText)
LabelWidth(i) == getTextSize(node.children[i].labelText)

\* C8 as stated: once a header is bound, w >= margin + title width + margin
\* and, for every knob, w >= margin + knob.w + margin + label width + margin.
NodeWidthBound ==
    node.header # None
    => /\ node.w >= node.margin + TitleWidth + node.margin
       /\ \A i \in KnobIdx :
             node.w >= node.margin + node.children[i].w + node.margin
                       + LabelWidth(i) + node.margin

\* C8 as amended: once a header is bound, w is the largest of
\* margin + title width + margin and, over the knobs,
\* knob.w + margin + label width + margin (no margin left of the knob).
NodeWidthExact ==
    node.header # None
    => /\ node.w >= node.margin + TitleWidth + node.margin
       /\ \A i \in KnobIdx :
             node.w >= node.children[i].w + node.margin + LabelWidth(i)
                       + node.margin
       /\ \/ node.w = node.margin + TitleWidth + node.margin
          \/ \E i \in KnobIdx :
                node.w = node.children[i].w + node.margin + LabelWidth(i)
                         + node.margin

NodeWidthExactWitness ==
    /\ node.header # None
    /\ Cardinality(KnobIdx) >= 2
    /\ node.w > node.margin + TitleWidth + node.margin
    /\ \E i \in KnobIdx :
          node.w > node.children[i].w + node.margin + LabelWidth(i)
                   + node.margin

\* C9: once a header is bound, h = header height + the sum over all knobs of
\* (knob.h + margin) + margin.
NodeHeightExact ==
    node.header # None
    => node.h = node.children[node.header].h
                + SumOf([i \in 1..Len(KnobsOf(node)) |->
                            KnobsOf(node)[i].h + node.margin])
                + node.margin

NodeHeightExactWitness ==
    /\ node.header # None
    /\ \E i, j \in KnobIdx : node.children[i].h # node.children[j].h

\* C10: the knob an addKnob call added sits, after the call, at the sum of
\* (h + margin) over the child items added before it, whatever its class.
VerticalStacking ==
    (last.op = "addKnob" /\ err = "none")
    => node.children[last.a].pos[2] =
          SumOf([j \in 1..(last.a - 1) |->
                    node.children[j].h + node.margin])

\* The knob the last addKnob call added, when the call returned.
Added == node.children[last.a]
AddKnobReturned == last.op = "addKnob" /\ err = "none"

\* C11 as stated: after addKnob an OutputKnob's right edge is the node's
\* right edge and any other knob's left edge is the node's left edge.
HorizontalFlush ==
    AddKnobReturned
    => IF Added.cls = "OutputKnob"
       THEN Added.pos[1] + Added.x + Added.w = node.x + node.w
       ELSE Added.pos[1] + Added.x = node.x

\* C11 as amended: after addKnob an OutputKnob sits at
\* bbox.right() - knob.w + margin / 2 with bbox.right() = x + w - 1 of the
\* node as just resized, an InputKnob at x - margin / 2, and a knob of
\* another class with its left edge on the node's left edge.
HorizontalOverhang ==
    AddKnobReturned
    => /\ Added.cls = "OutputKnob"
          => Added.pos[1] = (node.x + node.w - 1) - Added.w + node.margin \div 2
       /\ Added.cls = "InputKnob"
          => Added.pos[1] = node.x - node.margin \div 2
       /\ Added.cls = "Knob" => Added.pos[1] + Added.x = node.x

HorizontalOverhangWitness ==
    /\ AddKnobReturned
    /\ Added.cls = "OutputKnob"
    /\ node.w = Added.w + node.margin + LabelWidth(last.a) + node.margin
    /\ \E i \in KnobIdx : node.children[i].cls = "InputKnob"
                          /\ node.children[i].w < Added.w

(***************************************************************************)
(* Properties of node moves                                                *)
(***************************************************************************)
\* The knobs of node n and the edges they list.
KnobsOfNode(n) == {k \in Knobs : KnobNode(k) = n}
EdgesOfNode(n) == UNION {knobEdges[k] : k \in KnobsOfNode(n)}

\* The ends of edge e's path are the scene anchors of the knobs it is bound to.
PathTracks(e) ==
    /\ edgeObj[e].knob1 # None => edgeObj[e].path[1] = Anchor(edgeObj[e].knob1)
    /\ edgeObj[e].knob2 # None => edgeObj[e].path[4] = Anchor(edgeObj[e].knob2)

\* C12: when a node's mouse move event has been handled, the path of every
\* edge listed by a knob of that node ends at the knobs' anchors at the
\* node's new position.
DragTracking ==
    last.op = "nodeMove" => \A e \in EdgesOfNode(last.a) : PathTracks(e)

\* The displacement of node n by the last call.
Moved(n) == <<nodePos[n][1] - pre.pos[n][1], nodePos[n][2] - pre.pos[n][2]>>

\* C13: after a.connectTo(b) with a on node N1 and b on another node, a move
\* of N1 by d shifts the start of the edge's path by d and leaves its end.
EndToEndMove ==
    last.op \in {"nodeMove", "moveBy"}
    => \A e \in EdgesOfNode(last.a) :
          (/\ edgeObj[e].knob1 # None
           /\ edgeObj[e].knob2 # None
           /\ KnobNode(edgeObj[e].knob1) = last.a
           /\ KnobNode(edgeObj[e].knob2) # last.a
           /\ pre.objs[e].path[1] =
                 <<Anchor(edgeObj[e].knob1)[1] - Moved(last.a)[1],
                   Anchor(edgeObj[e].knob1)[2] - Moved(last.a)[2]>>)
          => /\ edgeObj[e].path[1] =
                   <<pre.objs[e].path[1][1] + Moved(last.a)[1],
                     pre.objs[e].path[1][2] + Moved(last.a)[2]>>
             /\ edgeObj[e].path[4] = pre.objs[e].path[4]

(***************************************************************************)
(* Properties of zoom and edge thickness                                   *)
(***************************************************************************)
\* Edges constructed by the last call.
Constructed == {e \in 1..Len(edgeObj) : e > Len(pre.objs)}

\* C14: an edge's thickness is 1 x the zoom read at its construction; one
\* zoom-in step from z leaves the zoom at z x 1.1, so an edge constructed
\* afterwards has that thickness; every edge that existed before a call keeps
\* its thickness through the call (wheel events and updatePath included).
ZoomThickness ==
    /\ \A e \in Constructed :
          /\ RatEq(edgeObj[e].thickness, pre.zoom)
          /\ RatEq(edgeObj[e].thickness, view.currentZoom)
    /\ (last.op = "wheel" /\ last.a >= 0) =>
          RatEq(view.currentZoom,
                RatMul(pre.zoom, <<ZoomStepNum, ZoomStepDen>>))
    /\ \A e \in 1..Len(pre.objs) :
          edgeObj[e].thickness = pre.objs[e].thickness

\* An edge made at zoom 1, one zoom-in step, a second edge, then a node move
\* that ran updatePath on both.
ZoomThicknessWitness ==
    /\ last.op = "nodeMove"
    /\ Len(edgeObj) = 2
    /\ {1, 2} \subseteq EdgesOfNode(last.a)
    /\ RatEq(edgeObj[1].thickness, One)
    /\ RatEq(edgeObj[2].thickness, <<ZoomStepNum, ZoomStepDen>>)
    /\ RatEq(view.currentZoom, <<ZoomStepNum, ZoomStepDen>>)

(***************************************************************************)
(* Properties of highlighting                                              *)
(***************************************************************************)
\* C15: after any sequence of highlight calls on a knob that ends with
\* highlight(False) the knob's fill colour is the one it had before the first
\* call, and no highlight call changes a connection set.
HighlightReversible ==
    last.op = "highlight" =>
        /\ knobEdges = pre.ke /\ sceneItems = pre.sc /\ edgeObj = pre.objs
        /\ last.b = 0 =>
              fill[last.a].fillColor = DefaultFillColor(KnobItem(last.a).cls)

(***************************************************************************)
(* Properties of addHeader and knob lookup                                 *)
(***************************************************************************)
\* The indexes of the Header items among the node's child items.
HeaderIdx == {i \in DOMAIN node.children : node.children[i].cls = "Header"}

\* C16: once addHeader was called, the node's only Header child is the one
\* bound last, its height is computed from that header, and an InputKnob or
\* OutputKnob added afterwards sits below that header and the knobs before it.
HeaderLastWins ==
    HeaderIdx # {}
    => /\ HeaderIdx = {node.header}
       /\ node.h = node.children[node.header].h
                   + SumOf([i \in 1..Len(KnobsOf(node)) |->
                               KnobsOf(node)[i].h + node.margin])
                   + node.margin
       /\ (AddKnobReturned /\ Added.cls # "Knob")
          => Added.pos[2] =
                node.children[node.header].h + node.margin
                + SumOf([j \in 1..(last.a - 1) |->
                           IF IsKnob(node.children[j])
                           THEN node.children[j].h + node.margin ELSE 0])

\* C17: node.knob(name) returns a child item of the node that is a Knob
\* labelled name when the node has one, and None when it has none; it never
\* returns a child that is no Knob.
KnobLookup ==
    last.op = "knob"
    => IF \E i \in KnobIdx : node.children[i].labelText = LookupNames[last.b]
       THEN /\ last.a \in KnobIdx
            /\ node.children[last.a].labelText = LookupNames[last.b]
       ELSE last.a = None

\* A lookup that found a knob below a header and a knob of another label.
KnobLookupWitness ==
    /\ last.op = "knob"
    /\ last.a = 3
    /\ node.header = 1
    /\ node.children[2].labelText # node.children[3].labelText

(***************************************************************************)
(* Properties of the event filter                                          *)
(***************************************************************************)
\* The held edges with one end bound to a knob and the other end free.
Drafts == {e \in Held(knobEdges, sceneItems) :
              (edgeObj[e].knob1 = None) # (edgeObj[e].knob2 = None)}

\* C18: under press, move and release events at most one draft edge is listed
\* by a knob or in the scene, one exists exactly while the handler holds an
\* edge in temp, and with temp empty no knob lists an edge with a free end.
SingleDraft ==
    /\ Cardinality(Drafts) <= 1
    /\ (Drafts # {}) <=> (temp.edge # None)
    /\ temp = NoTemp
       => \A k \in Knobs : \A e \in knobEdges[k] : None \notin Endpoints(e)

\* The positions of the knobs in the last scene query.
KnobsHit == {i \in DOMAIN query : query[i].kind = "Knob"}

\* C19: when the scene query holds a knob, itemAt returns the first knob of
\* the query, even behind an item that is no knob; when it holds none,
\* itemAt returns the first item of any kind.
HitPrefersKnob ==
    last.op = "itemAt"
    => IF KnobsHit # {}
       THEN \E i \in KnobsHit :
               /\ \A j \in KnobsHit : i <= j
               /\ last.item = query[i]
       ELSE last.item = (IF query = << >> THEN NoItem ELSE query[1])

(***************************************************************************)
(* Properties of the knob flow                                             *)
(***************************************************************************)
\* C20: whatever keyword arguments a knob was constructed with, an OutputKnob
\* has flow right-to-left and any other knob flow left-to-right; painting a
\* knob never raises UnknownFlowError and puts the label left of the
\* rectangle of an OutputKnob and right of the rectangle of any other knob.
FlowRecognized ==
    /\ \A i \in KnobIdx :
          node.children[i].flow = KnobFlowByClass(node.children[i].cls)
    /\ last.op = "paint"
       => /\ err # "UnknownFlowError"
          /\ IF node.children[last.a].cls = "OutputKnob"
             THEN last.b + getTextSize(node.children[last.a].labelText)
                     <= node.children[last.a].x
             ELSE last.b > QRectRight(node.children[last.a].x,
                                      node.children[last.a].w)

\* C21: a press that lands on no knob, and a move or a release received with
\* temp empty, leave temp, every knob's edge set and the scene's edges as they
\* were, and the event filter returns False, so the event is passed on.
NonKnobFrame ==
    (\/ last.op = "press" /\ last.item.kind # "Knob"
     \/ last.op \in {"move", "release"} /\ pre.temp = NoTemp)
    => /\ temp = pre.temp
       /\ knobEdges = pre.ke
       /\ sceneItems = pre.sc
       /\ err = "none"
       /\ ~last.ret

\* A left press on a node while a connection exists and nothing is dragged.
NonKnobFrameWitness ==
    /\ last.op = "press"
    /\ last.a = LeftButton
    /\ last.item.kind = "Node"
    /\ pre.temp = NoTemp
    /\ pre.sc # {}

\* C22: an edge is an item of the scene exactly when at least one knob lists
\* it; no knob lists an edge that was removed from the scene.
SceneMembership ==
    \A e \in Edges : (e \in sceneItems) <=> (\E k \in Knobs : e \in knobEdges[k])

====
